---- MODULE Spec2Model ----
(***************************************************************************)
(* NotebookCellTextModel (notebookCellTextModel.ts): one notebook cell -   *)
(* its lazily bound text buffer, language, metadata, output list, cached   *)
(* identity hash, the four change emitters and disposal.                   *)
(***************************************************************************)
EXTENDS Integers, Sequences, FiniteSets, TLC

VARIABLES
    source,            \* _source: raw text given to the constructor
    language,          \* _language
    metadata,          \* _metadata: function from the keys present to their values
    outputs,           \* _outputs: sequence of output records
    transientOptions,  \* [transientMetadata: set of keys, transientOutputs: BOOLEAN]
    hashCache,         \* _hash: Null or the value computed by getHashValue
    textBuffer,        \* _textBuffer: Undefined, the index of a built buffer, or EmptyDisposed
    built,             \* every buffer built from the source so far, in order of construction
    store,             \* Disposable._store: indices of the buffers whose disposables it holds
    isDisposed,        \* Disposable._store._isDisposed
    op,                \* name of the last operation called on the model
    arg,               \* the argument of the last operation, as the caller passed it
    ret,               \* what the last operation returned
    fired,             \* events delivered to the subscribers during the last operation
    observed,          \* what each subscriber saw of the cell when its event was delivered
    uuids              \* how many identifiers UUID.generateUuid has handed out

vars == <<source, language, metadata, outputs, transientOptions, hashCache,
          textBuffer, built, store, isDisposed, op, arg, ret, fired, observed, uuids>>

cellVars == <<source, language, metadata, outputs, transientOptions, hashCache,
              textBuffer, built, store, isDisposed>>

----------------------------------------------------------------------------
(* Bounds of the model *)

MaxOutputs == 1        \* longest output list kept by the lifecycle specification
MaxSplices == 2        \* longest batch given to spliceNotebookCellOutputs alone
MaxInitOutputs == 3    \* longest output list spliceNotebookCellOutputs alone starts from
MaxBuilt == 2          \* how many buffers the model lets a cell construct
MaxUuids == 6          \* how many identifiers cloning alone may generate

----------------------------------------------------------------------------
(* Values *)

LF == "\n"

Null == [null |-> TRUE]

None == "none"

Undefined == 0

EmptyDisposed == -1

Languages == {"python", "markdown"}

\* Raw sources and edited contents: sequences of characters.
Texts == {<<>>, <<"a">>, <<"a", LF, "b">>}

MetadataValues ==
    { [k \in {} |-> TRUE],
      [k \in {"editable"} |-> TRUE],
      [k \in {"editable"} |-> FALSE],
      [k \in {"custom"} |-> "c1"] }

MetadataKeys == {"editable", "hasExecutionOrder", "custom"}

MetadataWith(keys, e, h) ==
    [k \in keys |-> IF k = "editable" THEN e ELSE IF k = "hasExecutionOrder" THEN h ELSE "c1"]

\* Every cell metadata over the three keys, each key set or unset
CellMetadataValues ==
    {MetadataWith(keys, e, h) : keys \in SUBSET MetadataKeys, e \in BOOLEAN, h \in BOOLEAN}

\* The notebook document's defaults
DocumentMetadataValues == [cellEditable : BOOLEAN, cellHasExecutionOrder : BOOLEAN]

\* An output record: its identifier and its representations
Output(id, items) == [outputId |-> id, outputs |-> items]

\* The outputs a cell is constructed with
InitialOutputs(n) == [i \in 1..n |-> Output(i, "stream")]

\* Outputs inserted by splices
OutA == Output(-1, "A")
OutB == Output(-2, "B")

Min(a, b) == IF a < b THEN a ELSE b
Max(a, b) == IF a > b THEN a ELSE b

----------------------------------------------------------------------------
(* The text buffer (PieceTreeTextBuffer): lines separated by LF *)

RECURSIVE SplitLines(_)
SplitLines(text) ==
    IF \A i \in 1..Len(text) : text[i] # LF
    THEN <<text>>
    ELSE LET i == CHOOSE j \in 1..Len(text) :
                      text[j] = LF /\ \A m \in 1..(j - 1) : text[m] # LF
         IN <<SubSeq(text, 1, i - 1)>> \o SplitLines(SubSeq(text, i + 1, Len(text)))

\* builder.acceptChunk(source); builder.finish().create(LF, true)
CreateTextBuffer(text) ==
    [lines |-> SplitLines(text), listeners |-> 0, disposed |-> FALSE]

\* new PieceTreeTextBuffer([], '', '\n', ...) followed by dispose()
EmptyDisposedTextBuffer ==
    [lines |-> << <<>> >>, listeners |-> 0, disposed |-> TRUE]

GetLineCount(buf) == Len(buf.lines)

GetLineLength(buf, n) == Len(buf.lines[n])

RECURSIVE SumLineLengths(_)
SumLineLengths(lines) ==
    IF lines = <<>> THEN 0 ELSE Len(Head(lines)) + SumLineLengths(Tail(lines))

GetLength(buf) == SumLineLengths(buf.lines) + (Len(buf.lines) - 1)

Range(sl, sc, el, ec) ==
    [startLineNumber |-> sl, startColumn |-> sc, endLineNumber |-> el, endColumn |-> ec]

RECURSIVE JoinLines(_)
JoinLines(lines) ==
    IF Len(lines) = 1 THEN lines[1]
    ELSE lines[1] \o <<LF>> \o JoinLines(Tail(lines))

\* getValueInRange(range, LF)
GetValueInRange(buf, range) ==
    IF range.startLineNumber = range.endLineNumber
    THEN SubSeq(buf.lines[range.startLineNumber], range.startColumn, range.endColumn - 1)
    ELSE LET first == SubSeq(buf.lines[range.startLineNumber], range.startColumn,
                             Len(buf.lines[range.startLineNumber]))
             last  == SubSeq(buf.lines[range.endLineNumber], 1, range.endColumn - 1)
             mid   == SubSeq(buf.lines, range.startLineNumber + 1, range.endLineNumber - 1)
         IN JoinLines(<<first>> \o mid \o <<last>>)

----------------------------------------------------------------------------
(* Identity hash *)

\* What doHash makes of a value whose typeof is 'function'
FunctionRef == [k \in {"typeof"} |-> "function"]

\* _getPersisentMetadata: the metadata without the keys marked transient
GetPersisentMetadata(md, transientMetadata) ==
    [k \in (DOMAIN md) \ transientMetadata |-> md[k]]

\* hash(...) is taken as injective: the hash of an array is the array of its parts
hash(parts) == [language |-> parts[1], value |-> parts[2],
                metadata |-> parts[3], outputs |-> parts[4]]

\* A hash that takes the outputs in whatever the transient options say
ComputeHash_HashesAllOutputs(lang, value, md, outs, topts) ==
    hash(<<lang, value, FunctionRef, outs>>)

\* The array getHashValue hashes, for a cell in the given state
ComputeHash(lang, value, md, outs, topts) ==
    hash(<<lang, value, FunctionRef, IF topts.transientOutputs THEN <<>> ELSE outs>>)

----------------------------------------------------------------------------
(* Output splices: <<start, deleteCount, items>> *)

RECURSIVE Reverse(_)
Reverse(s) == IF s = <<>> THEN <<>> ELSE Append(Reverse(Tail(s)), Head(s))

\* Array.prototype.splice(start, deleteCount, ...items) with non-negative arguments
ArraySplice(list, start, deleteCount, items) ==
    LET len == Len(list)
        actualStart == Min(start, len)
        actualDelete == Min(Max(deleteCount, 0), len - actualStart)
    IN SubSeq(list, 1, actualStart) \o items
          \o SubSeq(list, actualStart + actualDelete + 1, len)

\* forEach over the splices in the order given
RECURSIVE ApplySplices(_, _)
ApplySplices(list, splices) ==
    IF splices = <<>> THEN list
    ELSE ApplySplices(ArraySplice(list, Head(splices)[1], Head(splices)[2], Head(splices)[3]),
                      Tail(splices))

----------------------------------------------------------------------------
(* Emitters and the disposable store *)

\* The emitters handed to this._register(...)
RegisteredEmitters == {}

EmitterDisposed(channel) == isDisposed /\ channel \in RegisteredEmitters

\* Emitter.fire(payload): what the subscribers of the channel receive
Fire(channel, payload) ==
    IF EmitterDisposed(channel) THEN <<>>
    ELSE <<[channel |-> channel, payload |-> payload]>>

\* What the subscribers of the events delivered see when they read the cell
\* from inside their handlers, given the fields as they are at the time of fire
Observe(events, lang, md, outs, cached) ==
    [i \in 1..Len(events) |->
        [language |-> lang, metadata |-> md, outputs |-> outs, hashCache |-> cached]]

RECURSIVE Repeat(_, _)
Repeat(s, n) == IF n = 0 THEN <<>> ELSE s \o Repeat(s, n - 1)

----------------------------------------------------------------------------
(* Lazy text buffer binding *)

\* A getter that never finds the buffer already bound
TextBufferIsSet_Never == FALSE

\* if (this._textBuffer)
TextBufferIsSet == textBuffer # Undefined

\* The buffer a binding stands for
BoundBuffer(tb, bs) == IF tb = EmptyDisposed THEN EmptyDisposedTextBuffer ELSE bs[tb]

\* get textBuffer(): return the bound buffer, or build it from the source,
\* register its disposable and subscribe the content listener
AccessTextBuffer ==
    IF TextBufferIsSet
    THEN UNCHANGED <<textBuffer, built, store>>
    ELSE /\ Len(built) < MaxBuilt
         /\ built' = Append(built, [CreateTextBuffer(source) EXCEPT !.listeners = 1])
         /\ textBuffer' = Len(built) + 1
         /\ store' = IF isDisposed THEN store ELSE store \cup {Len(built) + 1}

\* A full range whose end column is the length of the last line
GetFullModelRangeOf_EndsAtLength(buf) ==
    LET lineCount == GetLineCount(buf)
    IN Range(1, 1, lineCount, GetLineLength(buf, lineCount))

GetFullModelRangeOf(buf) ==
    LET lineCount == GetLineCount(buf)
    IN Range(1, 1, lineCount, GetLineLength(buf, lineCount) + 1)

GetValueOf(buf) == GetValueInRange(buf, GetFullModelRangeOf(buf))

----------------------------------------------------------------------------
(* Operations *)

Init ==
    /\ source \in Texts
    /\ language \in Languages
    /\ metadata = [k \in {} |-> TRUE]
    /\ outputs \in {InitialOutputs(n) : n \in 0..MaxOutputs}
    /\ transientOptions \in [transientMetadata : {{"custom"}}, transientOutputs : BOOLEAN]
    /\ hashCache = Null
    /\ textBuffer = Undefined
    /\ built = <<>>
    /\ store = {}
    /\ isDisposed = FALSE
    /\ op = "constructor"
    /\ arg = None
    /\ ret = None
    /\ fired = <<>>
    /\ observed = <<>>
    /\ uuids = 0

\* A metadata setter that does nothing when given the current record
SetMetadata_SkipsWhenEqual(newMetadata) ==
    /\ metadata' = newMetadata
    /\ hashCache' = IF newMetadata = metadata THEN hashCache ELSE Null
    /\ fired' = IF newMetadata = metadata THEN <<>> ELSE Fire("metadata", None)
    /\ observed' = Observe(fired', language, metadata', outputs, hashCache')
    /\ op' = "setMetadata"
    /\ arg' = newMetadata
    /\ ret' = None
    /\ UNCHANGED <<uuids, source, language, outputs, transientOptions, textBuffer, built, store, isDisposed>>

\* A metadata setter that notifies before it stores and invalidates
SetMetadata_FiresFirst(newMetadata) ==
    /\ metadata' = newMetadata
    /\ hashCache' = Null
    /\ fired' = Fire("metadata", None)
    /\ observed' = Observe(fired', language, metadata, outputs, hashCache)
    /\ op' = "setMetadata"
    /\ arg' = newMetadata
    /\ ret' = None
    /\ UNCHANGED <<uuids, source, language, outputs, transientOptions, textBuffer, built, store, isDisposed>>

SetMetadata(newMetadata) ==
    /\ metadata' = newMetadata
    /\ hashCache' = Null
    /\ fired' = Fire("metadata", None)
    /\ observed' = Observe(fired', language, metadata', outputs, hashCache')
    /\ op' = "setMetadata"
    /\ arg' = newMetadata
    /\ ret' = None
    /\ UNCHANGED <<uuids, source, language, outputs, transientOptions, textBuffer, built, store, isDisposed>>

\* A language setter that forgets to clear the cached hash
SetLanguage_KeepsHash(newLanguage) ==
    /\ language' = newLanguage
    /\ fired' = Fire("language", newLanguage)
    /\ observed' = Observe(fired', language', metadata, outputs, hashCache)
    /\ op' = "setLanguage"
    /\ arg' = newLanguage
    /\ ret' = None
    /\ UNCHANGED <<uuids, source, metadata, outputs, transientOptions, hashCache, textBuffer, built, store, isDisposed>>

SetLanguage(newLanguage) ==
    /\ language' = newLanguage
    /\ hashCache' = Null
    /\ fired' = Fire("language", newLanguage)
    /\ observed' = Observe(fired', language', metadata, outputs, hashCache')
    /\ op' = "setLanguage"
    /\ arg' = newLanguage
    /\ ret' = None
    /\ UNCHANGED <<uuids, source, metadata, outputs, transientOptions, textBuffer, built, store, isDisposed>>

\* The onDidChangeContent listener runs once per subscription on the edited buffer
ContentListenerRuns(buf) == IF buf.disposed THEN 0 ELSE buf.listeners

\* A content edit applied to the k-th built buffer by whoever holds it
EditContent(k, text) ==
    /\ k \in 1..Len(built)
    /\ built' = [built EXCEPT ![k].lines = SplitLines(text)]
    /\ hashCache' = IF ContentListenerRuns(built[k]) > 0 THEN Null ELSE hashCache
    /\ fired' = Repeat(Fire("content", None), ContentListenerRuns(built[k]))
    /\ observed' = Observe(fired', language, metadata, outputs, hashCache')
    /\ op' = "editContent"
    /\ arg' = k
    /\ ret' = None
    /\ UNCHANGED <<uuids, source, language, metadata, outputs, transientOptions, textBuffer, store, isDisposed>>

GetTextBuffer ==
    /\ AccessTextBuffer
    /\ op' = "textBuffer"
    /\ arg' = None
    /\ ret' = textBuffer'
    /\ fired' = <<>>
    /\ observed' = <<>>
    /\ UNCHANGED <<uuids, source, language, metadata, outputs, transientOptions, hashCache, isDisposed>>

GetValue ==
    /\ AccessTextBuffer
    /\ op' = "getValue"
    /\ arg' = None
    /\ ret' = GetValueOf(BoundBuffer(textBuffer', built'))
    /\ fired' = <<>>
    /\ observed' = <<>>
    /\ UNCHANGED <<uuids, source, language, metadata, outputs, transientOptions, hashCache, isDisposed>>

GetTextLength ==
    /\ AccessTextBuffer
    /\ op' = "getTextLength"
    /\ arg' = None
    /\ ret' = GetLength(BoundBuffer(textBuffer', built'))
    /\ fired' = <<>>
    /\ observed' = <<>>
    /\ UNCHANGED <<uuids, source, language, metadata, outputs, transientOptions, hashCache, isDisposed>>

GetFullModelRange ==
    /\ AccessTextBuffer
    /\ op' = "getFullModelRange"
    /\ arg' = None
    /\ ret' = GetFullModelRangeOf(BoundBuffer(textBuffer', built'))
    /\ fired' = <<>>
    /\ observed' = <<>>
    /\ UNCHANGED <<uuids, source, language, metadata, outputs, transientOptions, hashCache, isDisposed>>

\* A getHashValue that returns the computed hash without keeping it
GetHashValue_NotStored ==
    /\ AccessTextBuffer
    /\ op' = "getHashValue"
    /\ arg' = None
    /\ ret' = ComputeHash(language, GetValueOf(BoundBuffer(textBuffer', built')),
                          metadata, outputs, transientOptions)
    /\ fired' = <<>>
    /\ observed' = <<>>
    /\ UNCHANGED <<uuids, source, language, metadata, outputs, transientOptions, hashCache, isDisposed>>

GetHashValue ==
    /\ IF hashCache # Null
       THEN UNCHANGED <<hashCache, textBuffer, built, store>>
       ELSE /\ AccessTextBuffer
            /\ hashCache' = ComputeHash(language, GetValueOf(BoundBuffer(textBuffer', built')),
                                        metadata, outputs, transientOptions)
    /\ op' = "getHashValue"
    /\ arg' = None
    /\ ret' = hashCache'
    /\ fired' = <<>>
    /\ observed' = <<>>
    /\ UNCHANGED <<uuids, source, language, metadata, outputs, transientOptions, isDisposed>>

\* A splice has malformed indices for a list of the given length
Malformed(splice, len) == splice[1] > len \/ splice[1] + splice[2] > len

\* A splice that raises an error on a batch with malformed indices, before
\* applying any splice and without an event
SpliceNotebookCellOutputs_RejectsMalformed(splices) ==
    LET rejected == \E i \in 1..Len(splices) : Malformed(splices[i], Len(outputs))
    IN /\ outputs' = IF rejected THEN outputs ELSE ApplySplices(outputs, Reverse(splices))
       /\ fired' = IF rejected THEN <<>> ELSE Fire("outputs", Reverse(splices))
       /\ observed' = Observe(fired', language, metadata, outputs', hashCache)
       /\ op' = "spliceNotebookCellOutputs"
       /\ arg' = splices
       /\ ret' = IF rejected THEN "error" ELSE None
       /\ UNCHANGED <<uuids, source, language, metadata, transientOptions, hashCache, textBuffer, built, store, isDisposed>>

\* A splice that also clears the cached hash
SpliceNotebookCellOutputs_ClearsHash(splices) ==
    /\ outputs' = ApplySplices(outputs, Reverse(splices))
    /\ hashCache' = Null
    /\ fired' = Fire("outputs", Reverse(splices))
    /\ observed' = Observe(fired', language, metadata, outputs', hashCache')
    /\ op' = "spliceNotebookCellOutputs"
    /\ arg' = splices
    /\ ret' = None
    /\ UNCHANGED <<uuids, source, language, metadata, transientOptions, textBuffer, built, store, isDisposed>>

\* A splice that fires one event for each splice of the batch
SpliceNotebookCellOutputs_FiresPerSplice(splices) ==
    /\ outputs' = ApplySplices(outputs, Reverse(splices))
    /\ fired' = Repeat(Fire("outputs", Reverse(splices)), Len(splices))
    /\ observed' = Observe(fired', language, metadata, outputs', hashCache)
    /\ op' = "spliceNotebookCellOutputs"
    /\ arg' = splices
    /\ ret' = None
    /\ UNCHANGED <<uuids, source, language, metadata, transientOptions, hashCache, textBuffer, built, store, isDisposed>>

\* A splice that applies the batch in the order submitted
SpliceNotebookCellOutputs_InSubmittedOrder(splices) ==
    /\ outputs' = ApplySplices(outputs, splices)
    /\ fired' = Fire("outputs", splices)
    /\ observed' = Observe(fired', language, metadata, outputs', hashCache)
    /\ op' = "spliceNotebookCellOutputs"
    /\ arg' = splices
    /\ ret' = None
    /\ UNCHANGED <<uuids, source, language, metadata, transientOptions, hashCache, textBuffer, built, store, isDisposed>>

SpliceNotebookCellOutputs(splices) ==
    /\ outputs' = ApplySplices(outputs, Reverse(splices))
    /\ fired' = Fire("outputs", Reverse(splices))
    /\ observed' = Observe(fired', language, metadata, outputs', hashCache)
    /\ op' = "spliceNotebookCellOutputs"
    /\ arg' = splices
    /\ ret' = None
    /\ UNCHANGED <<uuids, source, language, metadata, transientOptions, hashCache, textBuffer, built, store, isDisposed>>

\* A fallback taken whenever the cell-level value is not true (|| for ??)
NullishCoalesce_AsLogicalOr(md, key, fallback) ==
    IF key \in DOMAIN md /\ md[key] = TRUE THEN TRUE ELSE fallback

\* this.metadata?.key ?? fallback
NullishCoalesce(md, key, fallback) ==
    IF key \in DOMAIN md THEN md[key] ELSE fallback

\* The record getEvaluatedMetadata returns
EvaluatedMetadata(md, documentMetadata) ==
    LET editable == NullishCoalesce(md, "editable", documentMetadata.cellEditable)
        hasExecutionOrder ==
            NullishCoalesce(md, "hasExecutionOrder", documentMetadata.cellHasExecutionOrder)
    IN [k \in (DOMAIN md) \cup {"editable", "hasExecutionOrder"} |->
          IF k = "editable" THEN editable
          ELSE IF k = "hasExecutionOrder" THEN hasExecutionOrder
          ELSE md[k]]

\* An evaluation that writes its result back to the cell
GetEvaluatedMetadata_StoresResult(documentMetadata) ==
    /\ op' = "getEvaluatedMetadata"
    /\ arg' = documentMetadata
    /\ ret' = EvaluatedMetadata(metadata, documentMetadata)
    /\ metadata' = ret'
    /\ fired' = <<>>
    /\ observed' = <<>>
    /\ UNCHANGED <<uuids, source, language, outputs, transientOptions, hashCache,
                   textBuffer, built, store, isDisposed>>

GetEvaluatedMetadata(documentMetadata) ==
    /\ op' = "getEvaluatedMetadata"
    /\ arg' = documentMetadata
    /\ ret' = EvaluatedMetadata(metadata, documentMetadata)
    /\ fired' = <<>>
    /\ observed' = <<>>
    /\ UNCHANGED <<uuids, source, language, metadata, outputs, transientOptions, hashCache,
                   textBuffer, built, store, isDisposed>>

\* The n-th identifier UUID.generateUuid hands out: never one handed out before,
\* never the identifier of an output a cell was given
GenerateUuid(n) == 1000 + n

CloneKeys ==
    {"editable", "breakpointMargin", "hasExecutionOrder", "inputCollapsed",
     "outputCollapsed", "custom"}

\* cloneMetadata: the six fixed fields of the cell metadata
CloneMetadata(md) == [k \in (DOMAIN md) \cap CloneKeys |-> md[k]]

\* A clone that copies the output records as they are
CloneOutputs_KeepsIds(outs, generated) == outs

\* cell.outputs.map(output => ({ outputs: output.outputs, outputId: generateUuid() }))
CloneOutputs(outs, generated) ==
    [i \in 1..Len(outs) |-> Output(GenerateUuid(generated + i), outs[i].outputs)]

CloneNotebookCellTextModel ==
    /\ AccessTextBuffer
    /\ op' = "cloneNotebookCellTextModel"
    /\ arg' = None
    /\ ret' = [source |-> GetValueOf(BoundBuffer(textBuffer', built')),
               language |-> language,
               outputs |-> CloneOutputs(outputs, uuids),
               metadata |-> CloneMetadata(metadata)]
    /\ uuids' = uuids + Len(outputs)
    /\ fired' = <<>>
    /\ observed' = <<>>
    /\ UNCHANGED <<source, language, metadata, outputs, transientOptions, hashCache, isDisposed>>

\* DisposableStore.dispose(): dispose what was registered, once
DisposeStore(bs) ==
    IF isDisposed THEN bs
    ELSE [k \in 1..Len(bs) |->
            IF k \in store THEN [bs[k] EXCEPT !.listeners = 0, !.disposed = TRUE] ELSE bs[k]]

\* A dispose that drops the buffer reference instead of swapping in the placeholder
Dispose_DropsBuffer ==
    /\ textBuffer' = Undefined
    /\ built' = DisposeStore(built)
    /\ isDisposed' = TRUE
    /\ op' = "dispose"
    /\ arg' = None
    /\ ret' = None
    /\ fired' = <<>>
    /\ observed' = <<>>
    /\ UNCHANGED <<uuids, source, language, metadata, outputs, transientOptions, hashCache, store>>

\* A dispose that also clears the cached hash
Dispose_ClearsHash ==
    /\ textBuffer' = EmptyDisposed
    /\ built' = DisposeStore(built)
    /\ isDisposed' = TRUE
    /\ hashCache' = Null
    /\ op' = "dispose"
    /\ arg' = None
    /\ ret' = None
    /\ fired' = <<>>
    /\ observed' = <<>>
    /\ UNCHANGED <<uuids, source, language, metadata, outputs, transientOptions, store>>

Dispose ==
    /\ textBuffer' = EmptyDisposed
    /\ built' = DisposeStore(built)
    /\ isDisposed' = TRUE
    /\ op' = "dispose"
    /\ arg' = None
    /\ ret' = None
    /\ fired' = <<>>
    /\ observed' = <<>>
    /\ UNCHANGED <<uuids, source, language, metadata, outputs, transientOptions, hashCache, store>>

----------------------------------------------------------------------------
(* The lifecycle specification: any caller, any order *)

\* The document defaults the lifecycle specification evaluates against
LifecycleDocuments == {[cellEditable |-> TRUE, cellHasExecutionOrder |-> FALSE]}

\* The batches the lifecycle specification submits
LifecycleBatches ==
    { <<>>,
      << <<0, 0, <<OutA>>>> >>,
      << <<0, 1, <<>>>> >>,
      << <<0, 1, <<OutA>>>>, <<1, 0, <<OutA>>>> >> }

Next ==
    \/ \E newMetadata \in MetadataValues : SetMetadata(newMetadata)
    \/ \E newLanguage \in Languages : SetLanguage(newLanguage)
    \/ \E k \in 1..MaxBuilt, text \in Texts : EditContent(k, text)
    \/ GetTextBuffer
    \/ GetValue
    \/ GetTextLength
    \/ GetFullModelRange
    \/ GetHashValue
    \/ \E documentMetadata \in LifecycleDocuments : GetEvaluatedMetadata(documentMetadata)
    \/ uuids + Len(outputs) <= MaxOutputs /\ CloneNotebookCellTextModel
    \/ \E splices \in LifecycleBatches :
          /\ Len(ApplySplices(outputs, Reverse(splices))) <= MaxOutputs
          /\ SpliceNotebookCellOutputs(splices)
    \/ Dispose

Spec == Init /\ [][Next]_vars

----------------------------------------------------------------------------
(* spliceNotebookCellOutputs alone: one batch submitted to a fresh cell *)

RECURSIVE SeqsUpTo(_, _)
SeqsUpTo(S, n) ==
    IF n = 0 THEN {<<>>}
    ELSE LET shorter == SeqsUpTo(S, n - 1)
         IN shorter \cup {Append(s, x) : s \in {t \in shorter : Len(t) = n - 1}, x \in S}

SpliceItems == {<<>>, <<OutA>>, <<OutB>>}

Splices == (0..MaxInitOutputs) \X (0..2) \X SpliceItems

InitSplice ==
    /\ source = <<"a">>
    /\ language = "python"
    /\ metadata = [k \in {} |-> TRUE]
    /\ outputs \in {InitialOutputs(n) : n \in 0..MaxInitOutputs}
    /\ transientOptions = [transientMetadata |-> {}, transientOutputs |-> FALSE]
    /\ hashCache = Null
    /\ textBuffer = Undefined
    /\ built = <<>>
    /\ store = {}
    /\ isDisposed = FALSE
    /\ op = "constructor"
    /\ arg = None
    /\ ret = None
    /\ fired = <<>>
    /\ observed = <<>>
    /\ uuids = 0

NextSplice ==
    /\ op = "constructor"
    /\ \E splices \in SeqsUpTo(Splices, MaxSplices) : SpliceNotebookCellOutputs(splices)

SpecSplice == InitSplice /\ [][NextSplice]_vars

----------------------------------------------------------------------------
(* Properties *)

\* The buffer a content query reads now: the bound one, or the one the
\* source would be built into
CurrentTextBuffer ==
    IF textBuffer = Undefined THEN CreateTextBuffer(source) ELSE BoundBuffer(textBuffer, built)

\* The hash getHashValue would compute from the cell as it is now
CurrentHash ==
    ComputeHash(language, GetValueOf(CurrentTextBuffer), metadata, outputs, transientOptions)

\* C1: the cached hash is null or equal to the hash that would be computed
\* now from the language, the text, the persistent metadata and the outputs.
C1_CachedHashNeverStale ==
    hashCache = Null \/ hashCache = CurrentHash

\* A mutation that has to invalidate the hash was the last operation: a
\* language set, a metadata set, or an edit made through the bound buffer
InvalidatingMutationDone ==
    \/ op \in {"setLanguage", "setMetadata"}
    \/ op = "editContent" /\ arg = textBuffer

\* C2: after a language set, a metadata set or a content edit through the
\* bound buffer the hash cache is null, and a getHashValue issued next
\* returns the hash recomputed from the current state.
C2_MutationInvalidatesHash ==
    /\ [](InvalidatingMutationDone => hashCache = Null)
    /\ [][(InvalidatingMutationDone /\ op' = "getHashValue")
            => (ret' = CurrentHash /\ hashCache' = ret')]_vars

C2_Witness ==
    /\ op = "editContent" /\ arg = textBuffer
    /\ hashCache = Null
    /\ built[arg].lines # SplitLines(source)
    /\ fired # <<>>

\* C3: getHashValue leaves the cache non-null and returns it; a second call
\* right after the first returns the same value and changes nothing.
C3_HashMemoized ==
    /\ [](op = "getHashValue" => (hashCache # Null /\ ret = hashCache))
    /\ [][(op = "getHashValue" /\ op' = "getHashValue")
            => (ret' = ret /\ UNCHANGED cellVars)]_vars

C3_Witness ==
    /\ op = "getHashValue"
    /\ hashCache # Null
    /\ ret = hashCache
    /\ ret.language = language

\* Two metadata records differ in the value of a key that is not transient
DifferInPersistentMetadata(md1, md2) ==
    GetPersisentMetadata(md1, transientOptions.transientMetadata)
        # GetPersisentMetadata(md2, transientOptions.transientMetadata)

\* C4: the hash computed on a miss depends on the persistent metadata: a cell
\* equal to this one but for the value of a non-transient metadata key gets a
\* different hash.
C4_HashDependsOnPersistentMetadata ==
    (op = "getHashValue" /\ ret = CurrentHash)
        => \A md2 \in MetadataValues :
              DifferInPersistentMetadata(md2, metadata)
                 => ComputeHash(language, GetValueOf(CurrentTextBuffer), md2, outputs,
                                transientOptions) # ret

\* C5: the outputs event of a batch of two or more splices carries the
\* splices in the order the caller submitted them.
C5_EventCarriesSubmittedOrder ==
    (op = "spliceNotebookCellOutputs" /\ Len(arg) >= 2)
        => fired = <<[channel |-> "outputs", payload |-> arg]>>

\* The splices of a batch, in submission order, cover ranges of the list that
\* ascend and do not overlap: each ends inside the list and before the next starts
AscendingNonOverlapping(splices, len) ==
    /\ \A i \in 1..Len(splices) : splices[i][1] + splices[i][2] <= len
    /\ \A i \in 1..Len(splices) : \A j \in (i + 1)..Len(splices) :
          splices[i][1] + splices[i][2] <= splices[j][1]

\* The records the batch inserts at the (0-based) position
RECURSIVE InsertedAt(_, _)
InsertedAt(splices, pos) ==
    IF splices = <<>> THEN <<>>
    ELSE (IF Head(splices)[1] = pos THEN Head(splices)[3] ELSE <<>>)
            \o InsertedAt(Tail(splices), pos)

DeletedAt(splices, pos) ==
    \E i \in 1..Len(splices) : splices[i][1] <= pos /\ pos < splices[i][1] + splices[i][2]

\* Every range of the original list replaced at once by its inserted records
RECURSIVE ReplaceFrom(_, _, _)
ReplaceFrom(list, splices, pos) ==
    IF pos > Len(list) THEN <<>>
    ELSE InsertedAt(splices, pos)
            \o (IF pos < Len(list) /\ ~DeletedAt(splices, pos) THEN <<list[pos + 1]>> ELSE <<>>)
            \o ReplaceFrom(list, splices, pos + 1)

SimultaneousReplace(list, splices) == ReplaceFrom(list, splices, 0)

\* C6: a batch submitted in ascending order with non-overlapping ranges,
\* indexed against the list before the batch, leaves the list equal to the
\* simultaneous replacement of every range by its inserted records.
C6_BatchAppliedAgainstOriginalList ==
    [][(op' = "spliceNotebookCellOutputs" /\ AscendingNonOverlapping(arg', Len(outputs)))
          => outputs' = SimultaneousReplace(outputs, arg')]_vars

C6_Witness ==
    /\ op = "spliceNotebookCellOutputs"
    /\ arg = << <<0, 1, <<OutA>>>>, <<2, 0, <<OutB>>>> >>
    /\ outputs = <<OutA, Output(2, "stream"), OutB, Output(3, "stream")>>

\* C7: while the cell is live the buffer is built at most once and holds at
\* most one content listener: every access returns the first buffer, and an
\* edit of it invalidates the hash once and fires one content event.
C7_BufferBoundOnce ==
    /\ Len(built) <= 1
    /\ \A k \in 1..Len(built) : built[k].listeners <= 1
    /\ (~isDisposed /\ textBuffer # Undefined) => textBuffer = 1
    /\ (~isDisposed /\ op = "textBuffer") => ret = 1
    /\ (~isDisposed /\ op = "editContent" /\ arg = textBuffer)
          => (fired = <<[channel |-> "content", payload |-> None]>> /\ hashCache = Null)

C7_Witness ==
    /\ ~isDisposed
    /\ op = "editContent" /\ arg = textBuffer
    /\ Len(built) = 1 /\ built[1].listeners = 1
    /\ Len(fired) = 1
    /\ hashCache = Null

\* C8: every language set and every metadata set stores the value, clears
\* the cached hash and fires its event once, also when the value assigned is
\* the one already stored.
C8_SettersUnconditional ==
    /\ op = "setLanguage"
          => /\ language = arg
             /\ hashCache = Null
             /\ fired = <<[channel |-> "language", payload |-> arg]>>
    /\ op = "setMetadata"
          => /\ metadata = arg
             /\ hashCache = Null
             /\ fired = <<[channel |-> "metadata", payload |-> None]>>

C8_Witness ==
    /\ op = "setMetadata"
    /\ metadata = [k \in {"editable"} |-> TRUE]
    /\ hashCache = Null
    /\ fired = <<[channel |-> "metadata", payload |-> None]>>
    /\ textBuffer = 1

\* C9: after dispose the bound buffer is the empty disposed placeholder:
\* getTextLength returns 0, getValue the empty text, no buffer is built from
\* the source any more, and a further dispose changes nothing.
C9_DisposedCellIsEmpty ==
    /\ [](isDisposed
            => /\ textBuffer = EmptyDisposed
               /\ op = "getTextLength" => ret = 0
               /\ op = "getValue" => ret = <<>>
               /\ op = "textBuffer" => ret = EmptyDisposed)
    /\ [][isDisposed
            => /\ Len(built') = Len(built)
               /\ op' = "dispose" => UNCHANGED cellVars]_vars

C9_Witness ==
    /\ isDisposed
    /\ op = "getTextLength" /\ ret = 0
    /\ source # <<>>
    /\ Len(built) = 1 /\ built[1].lines # << <<>> >>

\* C10: after dispose no subscriber is notified by any operation.
C10_NoEventAfterDispose ==
    isDisposed => fired = <<>>

----------------------------------------------------------------------------
(* getEvaluatedMetadata alone: any cell metadata against any document defaults *)

InitMetadata ==
    /\ source = <<"a">>
    /\ language \in Languages
    /\ metadata \in CellMetadataValues
    /\ outputs = <<>>
    /\ transientOptions = [transientMetadata |-> {"custom"}, transientOutputs |-> FALSE]
    /\ hashCache = Null
    /\ textBuffer = Undefined
    /\ built = <<>>
    /\ store = {}
    /\ isDisposed = FALSE
    /\ op = "constructor"
    /\ arg = None
    /\ ret = None
    /\ fired = <<>>
    /\ observed = <<>>
    /\ uuids = 0

NextMetadata ==
    \E documentMetadata \in DocumentMetadataValues : GetEvaluatedMetadata(documentMetadata)

SpecMetadata == InitMetadata /\ [][NextMetadata]_vars

\* C11: the evaluated editable is the cell's editable when set, true or
\* false, and the document's cellEditable otherwise; likewise for
\* hasExecutionOrder; every other key keeps the cell metadata's value.
C11_CellValueBeforeDocumentDefault ==
    op = "getEvaluatedMetadata"
        => /\ DOMAIN ret = (DOMAIN metadata) \cup {"editable", "hasExecutionOrder"}
           /\ "editable" \in DOMAIN metadata => ret["editable"] = metadata["editable"]
           /\ "editable" \notin DOMAIN metadata => ret["editable"] = arg.cellEditable
           /\ "hasExecutionOrder" \in DOMAIN metadata
                 => ret["hasExecutionOrder"] = metadata["hasExecutionOrder"]
           /\ "hasExecutionOrder" \notin DOMAIN metadata
                 => ret["hasExecutionOrder"] = arg.cellHasExecutionOrder
           /\ \A k \in (DOMAIN metadata) \ {"editable", "hasExecutionOrder"} :
                 ret[k] = metadata[k]

C11_Witness ==
    /\ op = "getEvaluatedMetadata"
    /\ "editable" \in DOMAIN metadata /\ metadata["editable"] = FALSE
    /\ arg.cellEditable = TRUE
    /\ ret["editable"] = FALSE
    /\ "hasExecutionOrder" \notin DOMAIN metadata
    /\ ret["hasExecutionOrder"] = arg.cellHasExecutionOrder

----------------------------------------------------------------------------
(* cloneNotebookCellTextModel alone: a cell cloned again and again *)

InitClone ==
    /\ source \in Texts
    /\ language \in Languages
    /\ metadata \in MetadataValues
    /\ outputs \in {InitialOutputs(n) : n \in 0..MaxInitOutputs}
    /\ transientOptions = [transientMetadata |-> {"custom"}, transientOutputs |-> FALSE]
    /\ hashCache = Null
    /\ textBuffer = Undefined
    /\ built = <<>>
    /\ store = {}
    /\ isDisposed = FALSE
    /\ op = "constructor"
    /\ arg = None
    /\ ret = None
    /\ fired = <<>>
    /\ observed = <<>>
    /\ uuids = 0

NextClone ==
    /\ uuids + Len(outputs) <= MaxUuids
    /\ CloneNotebookCellTextModel

SpecClone == InitClone /\ [][NextClone]_vars

OutputIds(outs) == {outs[i].outputId : i \in 1..Len(outs)}

\* C12: a clone's outputs match the source's in number and, position by
\* position, in content; their identifiers are distinct from each other, from
\* the source's and from every identifier generated before, so also from those
\* of earlier clones; the source's outputs are left as they were.
C12_CloneHasFreshOutputIds ==
    /\ [](op = "cloneNotebookCellTextModel"
            => /\ Len(ret.outputs) = Len(outputs)
               /\ \A i \in 1..Len(outputs) : ret.outputs[i].outputs = outputs[i].outputs
               /\ Cardinality(OutputIds(ret.outputs)) = Len(outputs)
               /\ OutputIds(ret.outputs) \cap OutputIds(outputs) = {})
    /\ [][op' = "cloneNotebookCellTextModel"
            => /\ outputs' = outputs
               /\ OutputIds(ret'.outputs) \cap {GenerateUuid(n) : n \in 1..uuids} = {}]_vars

C12_Witness ==
    /\ op = "cloneNotebookCellTextModel"
    /\ Len(outputs) >= 2
    /\ uuids = 2 * Len(outputs)
    /\ Len(ret.outputs) = Len(outputs)
    /\ OutputIds(ret.outputs) \cap OutputIds(outputs) = {}

----------------------------------------------------------------------------
\* One splice with its start cut down to the length of the list and its
\* delete count to the elements from there on
ClampedSplice(list, start, deleteCount, items) ==
    LET from == IF start > Len(list) THEN Len(list) ELSE start
        upto == IF from + deleteCount > Len(list) THEN Len(list) ELSE from + deleteCount
    IN [i \in 1..(from + Len(items) + (Len(list) - upto)) |->
          IF i <= from THEN list[i]
          ELSE IF i <= from + Len(items) THEN items[i - from]
          ELSE list[i - Len(items) - from + upto]]

\* The batch applied from its last splice to its first
RECURSIVE ClampedBatch(_, _)
ClampedBatch(list, splices) ==
    IF splices = <<>> THEN list
    ELSE LET last == splices[Len(splices)]
         IN ClampedBatch(ClampedSplice(list, last[1], last[2], last[3]),
                         SubSeq(splices, 1, Len(splices) - 1))

\* C13 as claimed: a batch with a malformed splice raises an error, leaves
\* the output list as it was and emits no outputs event.
C13_MalformedBatchRejected ==
    [][(/\ op' = "spliceNotebookCellOutputs"
        /\ \E i \in 1..Len(arg') : Malformed(arg'[i], Len(outputs)))
          => (ret' = "error" /\ outputs' = outputs /\ fired' = <<>>)]_vars

\* C13 as amended: no splice batch raises an error or stops half way; a
\* malformed splice has its start cut down to the list length and its delete
\* count to the elements available, every splice of the batch is applied and
\* one outputs event is emitted.
C13_MalformedBatchClamped ==
    [][op' = "spliceNotebookCellOutputs"
          => /\ ret' = None
             /\ outputs' = ClampedBatch(outputs, arg')
             /\ Len(fired') = 1 /\ fired'[1].channel = "outputs"]_vars

C13_Witness ==
    /\ op = "spliceNotebookCellOutputs"
    /\ arg = << <<3, 1, <<OutA>>>> >>
    /\ outputs = <<Output(1, "stream"), OutA>>
    /\ ret = None
    /\ Len(fired) = 1

----------------------------------------------------------------------------
\* Every output list the lifecycle specification can hold
OutputLists == SeqsUpTo({Output(1, "stream"), Output(2, "stream"), OutA}, MaxOutputs)

\* C14: the hash computed from an empty cache does not depend on excluded
\* inputs: a cell that differs from this one only in metadata keys marked
\* transient, or only in its outputs while transientOutputs is set, gets the
\* same hash value.
C14_HashIgnoresTransientInputs ==
    (op = "getHashValue" /\ ret = CurrentHash)
        => /\ \A md2 \in MetadataValues :
                 ~DifferInPersistentMetadata(md2, metadata)
                    => ComputeHash(language, GetValueOf(CurrentTextBuffer), md2, outputs,
                                   transientOptions) = ret
           /\ transientOptions.transientOutputs
                 => \A outs2 \in OutputLists :
                       ComputeHash(language, GetValueOf(CurrentTextBuffer), metadata, outs2,
                                   transientOptions) = ret

C14_Witness ==
    /\ op = "getHashValue" /\ ret = CurrentHash
    /\ transientOptions.transientOutputs
    /\ outputs # <<>>
    /\ "custom" \in DOMAIN metadata
    /\ "custom" \in transientOptions.transientMetadata

----------------------------------------------------------------------------
\* C15: spliceNotebookCellOutputs changes the output list only: the cached
\* hash, the language, the metadata and the text stay as they were, and a
\* getHashValue right after it returns the hash cached before it.
C15_SpliceKeepsHashAndContent ==
    /\ [][op' = "spliceNotebookCellOutputs"
            => UNCHANGED <<hashCache, language, metadata, source, textBuffer, built,
                           transientOptions, store, isDisposed>>]_vars
    /\ [][(op = "spliceNotebookCellOutputs" /\ hashCache # Null /\ op' = "getHashValue")
            => (ret' = hashCache /\ hashCache' = hashCache)]_vars

C15_Witness ==
    /\ op = "getHashValue"
    /\ ret = hashCache
    /\ ~transientOptions.transientOutputs
    /\ ret.outputs # outputs
    /\ ~isDisposed

\* The operations that only read the cell
ReadOperations ==
    {"textBuffer", "getValue", "getTextLength", "getFullModelRange", "getHashValue",
     "getEvaluatedMetadata", "cloneNotebookCellTextModel"}

\* C16: every mutation fires one event, on its own channel only: a language
\* set one language event carrying the new language, a metadata set one
\* metadata event, an edit of the bound buffer one content event, a splice
\* batch of any size one outputs event; read operations fire nothing.
C16_OneEventOnOwnChannel ==
    /\ op = "setLanguage" => fired = <<[channel |-> "language", payload |-> language]>>
    /\ op = "setMetadata" => fired = <<[channel |-> "metadata", payload |-> None]>>
    /\ (op = "editContent" /\ arg = textBuffer)
          => fired = <<[channel |-> "content", payload |-> None]>>
    /\ op = "spliceNotebookCellOutputs"
          => (Len(fired) = 1 /\ fired[1].channel = "outputs")
    /\ op \in ReadOperations => fired = <<>>

C16_Witness ==
    /\ op = "spliceNotebookCellOutputs"
    /\ arg = <<>>
    /\ Len(fired) = 1 /\ fired[1].channel = "outputs"
    /\ hashCache # Null

----------------------------------------------------------------------------
\* C17: getEvaluatedMetadata only reads: the stored metadata, a key left
\* unset included, the cached hash, the language, the outputs and the buffer
\* are the same before and after the call.
C17_EvaluationReadsOnly ==
    [][op' = "getEvaluatedMetadata" => UNCHANGED cellVars]_vars

C17_Witness ==
    /\ op = "getEvaluatedMetadata"
    /\ "editable" \notin DOMAIN metadata
    /\ ret["editable"] = arg.cellEditable
    /\ hashCache # Null
    /\ outputs # <<>>

\* The text a buffer holds, character by character
TextOf(buf) == JoinLines(buf.lines)

LineFeeds(text) == {i \in 1..Len(text) : text[i] = LF}

LastLineFeed(text) ==
    IF LineFeeds(text) = {} THEN 0
    ELSE CHOOSE i \in LineFeeds(text) : \A j \in LineFeeds(text) : j <= i

\* C18: getFullModelRange binds the buffer and returns line 1 column 1 to
\* the last line and the column after its last character; for empty content
\* and after dispose that is line 1 column 1 to line 1 column 1.
C18_FullRangeSpansContent ==
    op = "getFullModelRange"
        => LET text == TextOf(CurrentTextBuffer)
           IN /\ textBuffer # Undefined
              /\ ret = Range(1, 1, Cardinality(LineFeeds(text)) + 1,
                             Len(text) - LastLineFeed(text) + 1)
              /\ text = <<>> => ret = Range(1, 1, 1, 1)
              /\ isDisposed => ret = Range(1, 1, 1, 1)

C18_Witness ==
    /\ op = "getFullModelRange"
    /\ ~isDisposed
    /\ TextOf(CurrentTextBuffer) = <<"a", LF, "b">>
    /\ ret = Range(1, 1, 2, 2)

\* C19: a subscriber reading the cell from inside its handler sees the
\* state the mutation leaves: the new language, metadata and outputs (all
\* splices of the batch applied), and an empty hash cache when the event is a
\* language, metadata or content change.
C19_SubscribersSeePostState ==
    /\ Len(observed) = Len(fired)
    /\ \A i \in 1..Len(observed) :
          /\ observed[i].language = language
          /\ observed[i].metadata = metadata
          /\ observed[i].outputs = outputs
          /\ fired[i].channel \in {"language", "metadata", "content"}
                => observed[i].hashCache = Null

C19_Witness ==
    /\ op = "setMetadata"
    /\ "editable" \in DOMAIN metadata
    /\ Len(observed) = 1
    /\ observed[1].metadata = metadata
    /\ observed[1].hashCache = Null
    /\ textBuffer = 1

\* C20: dispose changes the buffer binding and releases the content
\* listener only: language, metadata, outputs and cached hash stay, a hash
\* cached before dispose is returned after it, and the setters keep storing
\* the value and clearing the hash on a disposed cell.
C20_DisposeKeepsFieldsAndHash ==
    /\ [][op' = "dispose"
            => UNCHANGED <<language, metadata, outputs, hashCache, source, transientOptions>>]_vars
    /\ [][(op = "dispose" /\ hashCache # Null /\ op' = "getHashValue")
            => (ret' = hashCache /\ hashCache' = hashCache)]_vars
    /\ [](isDisposed
            => /\ \A k \in 1..Len(built) : built[k].listeners = 0
               /\ op = "setLanguage" => (language = arg /\ hashCache = Null)
               /\ op = "setMetadata" => (metadata = arg /\ hashCache = Null))

C20_Witness ==
    /\ isDisposed
    /\ op = "getHashValue"
    /\ ret = hashCache
    /\ ret.value # <<>>
    /\ TextOf(CurrentTextBuffer) = <<>>

----------------------------------------------------------------------------
====
